---- MODULE Spec2Model ----
(***************************************************************************)
(* MultiplexerSink (dom/media/mediasink/MultiplexerSink.h): a MediaSink    *)
(* that owns two MediaSinks, mVideoSink (the primary presentation sink)    *)
(* and mDecodedStream (the secondary capture sink), and forwards every     *)
(* MediaSink call to one or both of them.                                  *)
(*                                                                         *)
(* The two owned sinks are MediaSink implementations whose code is not     *)
(* part of the sources at hand; they are modelled as recording doubles     *)
(* that follow the MediaSink capability contract.  Every call a sink       *)
(* receives is appended to its log in `calls` together with the value the  *)
(* sink returned.  A composite operation that forwards to both sinks takes *)
(* two steps, one per statement of its body; `pc` and `cur` hold the       *)
(* driver's position inside such an operation.                             *)
(***************************************************************************)
EXTENDS Naturals, Sequences, FiniteSets

\* Number of composite calls the driver issues in one behaviour.
MaxCalls == 2

----------------------------------------------------------------------------
\* Values

Primary == "mVideoSink"
Secondary == "mDecodedStream"
SinkNames == {Primary, Secondary}

TrackTypes == {"Audio", "Video"}
TimeUnits == {"0s", "1s"}
Results ==
  {"NS_OK", "NS_ERROR_FAILURE", "NS_ERROR_OUT_OF_MEMORY", "NS_ERROR_NOT_INITIALIZED"}
Rates == {"1.0", "2.0"}
Volumes == {"0.5", "1.0"}
StreamNames == {"x", "y"}
Containers == {"container", "nullptr"}
VideoInfos == {"videoinfo"}
MediaInfos == {"audio+video"}
Void == "void"
None == "none"

BoolStr(b) == IF b THEN "true" ELSE "false"

\* The operations applied to both owned sinks.
BothOps ==
  {"SetStreamName", "SetPlaybackRate", "SetPlaying", "Redraw", "Start",
   "Stop", "Shutdown", "SetSecondaryVideoContainer"}

\* The operations forwarded to mVideoSink only.
PrimaryOnlyQueries ==
  {"OnEnded", "GetEndTime", "GetPosition", "HasUnplayedFrames",
   "UnplayedDuration", "IsStarted", "IsPlaying", "AudioDevice",
   "PlaybackRate"}
PrimaryOnlyMutators == {"SetVolume", "SetPreservesPitch"}

----------------------------------------------------------------------------
\* The owned sinks (MediaSink capability contract)

InitSink(k) ==
  [state |-> "Idle", playing |-> FALSE, rate |-> "1.0", volume |-> "1.0",
   pitch |-> TRUE, name |-> None, container |-> None, startTime |-> None,
   device |-> IF k = Primary THEN "speaker" ELSE "nullptr"]

\* The EndedPromise a sink hands out for a track.
EndedPromiseOf(k, track) ==
  CASE k = Primary /\ track = "Audio" -> "mVideoSink audio ended"
    [] k = Primary /\ track = "Video" -> "mVideoSink video ended"
    [] k = Secondary /\ track = "Audio" -> "mDecodedStream audio ended"
    [] OTHER -> "mDecodedStream video ended"

\* The values a sink may return for a call, given its state.
SinkReplies(k, s, op, arg) ==
  CASE op = "Start" -> Results
    [] op = "Shutdown" -> {"released", "release failed"}
    [] op \in {"GetPosition", "GetEndTime", "UnplayedDuration"} -> TimeUnits
    [] op = "HasUnplayedFrames" -> {"true", "false"}
    [] op = "OnEnded" -> {EndedPromiseOf(k, arg[1])}
    [] op = "IsStarted" -> {BoolStr(s.state = "Started")}
    [] op = "IsPlaying" -> {BoolStr(s.playing)}
    [] op = "PlaybackRate" -> {s.rate}
    [] op = "AudioDevice" -> {s.device}
    [] OTHER -> {Void}

\* The state of a sink after a call that returned res.
SinkEffect(s, op, arg, res) ==
  CASE op = "Start" ->
         IF res = "NS_OK" /\ s.state # "Shutdown"
           THEN [s EXCEPT !.state = "Started", !.startTime = arg[1]]
           ELSE s
    [] op = "Stop" ->
         IF s.state = "Started" THEN [s EXCEPT !.state = "Idle"] ELSE s
    [] op = "Shutdown" -> [s EXCEPT !.state = "Shutdown"]
    [] op = "SetVolume" -> [s EXCEPT !.volume = arg[1]]
    [] op = "SetStreamName" -> [s EXCEPT !.name = arg[1]]
    [] op = "SetPlaybackRate" -> [s EXCEPT !.rate = arg[1]]
    [] op = "SetPreservesPitch" -> [s EXCEPT !.pitch = (arg[1] = "true")]
    [] op = "SetPlaying" -> [s EXCEPT !.playing = (arg[1] = "true")]
    [] op = "SetSecondaryVideoContainer" -> [s EXCEPT !.container = arg[1]]
    [] OTHER -> s

----------------------------------------------------------------------------
\* State

VARIABLES
  sinks,   \* sinks[k]: the state of owned sink k
  calls,   \* calls[k]: the calls sink k has received, oldest first
  pc,      \* "idle", or "secondary" between the two statements of an operation
  cur,     \* the composite call in flight: op, arg, videoSinkRes
  issued,  \* the composite calls the driver has begun, oldest first
  returned, \* the composite calls that have returned, with the value returned
  owned,   \* owned[m]: the sink that member m (mVideoSink, mDecodedStream) refers to
  other    \* pc and cur of a second caller, for callers that are not serialized

vars == <<sinks, calls, pc, cur, issued, returned, owned, other>>

NoCall == [op |-> None, arg |-> <<>>, videoSinkRes |-> None]
NoRet == [op |-> None, arg |-> <<>>, val |-> None]
NoEntry == [op |-> None, arg |-> <<>>, res |-> None]

\* MultiplexerSink::MultiplexerSink.  The sink passed as aVideoSink is named
\* "mVideoSink" and the one passed as aDecodedStream "mDecodedStream", after the
\* members initialized with them.
Init ==
  /\ sinks = [k \in SinkNames |-> InitSink(k)]
  /\ calls = [k \in SinkNames |-> <<>>]
  /\ pc = "idle"
  /\ cur = NoCall
  /\ issued = <<>>
  /\ returned = <<>>
  /\ owned = [m \in SinkNames |-> m]
  /\ other = [pc |-> "idle", cur |-> NoCall]

\* The sink member m refers to receives op(arg) and returns res.
Deliver(m, op, arg, res) ==
  LET k == owned[m] IN
  /\ k \in SinkNames
  /\ res \in SinkReplies(k, sinks[k], op, arg)
  /\ sinks' = [sinks EXCEPT ![k] = SinkEffect(@, op, arg, res)]
  /\ calls' = [calls EXCEPT ![k] = Append(@, [op |-> op, arg |-> arg, res |-> res])]

\* The driver calls composite operation op(arg).
Enter(op, arg) ==
  /\ pc = "idle"
  /\ Len(issued) < MaxCalls
  /\ issued' = Append(issued, [op |-> op, arg |-> arg])
  /\ UNCHANGED <<owned, other>>

\* The composite operation op(arg) returns val to the driver.
Return(op, arg, val) ==
  returned' = Append(returned, [op |-> op, arg |-> arg, val |-> val])

\* `return mVideoSink->op(arg);` (or `mVideoSink->op(arg);` in a void
\* operation): the composite returns what mVideoSink returned.
ReturnVideoSink(op, arg) ==
  /\ owned[Primary] \in SinkNames
  /\ \E res \in SinkReplies(owned[Primary], sinks[owned[Primary]], op, arg) :
       /\ Deliver(Primary, op, arg, res)
       /\ Return(op, arg, res)

\* `mVideoSink->op(arg);` as the first of two statements.
CallVideoSink(op, arg) ==
  /\ owned[Primary] \in SinkNames
  /\ \E res \in SinkReplies(owned[Primary], sinks[owned[Primary]], op, arg) :
       /\ Deliver(Primary, op, arg, res)
       /\ cur' = [op |-> op, arg |-> arg, videoSinkRes |-> res]

\* mDecodedStream called only while mVideoSink is started.
CallDecodedStream_OnlyIfVideoSinkStarted(op, arg) ==
  IF sinks[Primary].state = "Started"
    THEN \E res \in SinkReplies(owned[Secondary], sinks[owned[Secondary]], op, arg) :
           Deliver(Secondary, op, arg, res)
    ELSE UNCHANGED <<sinks, calls>>

\* `mDecodedStream->op(arg);` as the second statement of a void operation.
CallDecodedStream(op, arg) ==
  /\ owned[Secondary] \in SinkNames
  /\ \E res \in SinkReplies(owned[Secondary], sinks[owned[Secondary]], op, arg) :
       Deliver(Secondary, op, arg, res)

\* The driver is between the two statements of operation op.
InFlight(op) == pc = "secondary" /\ cur.op = op

----------------------------------------------------------------------------
\* MultiplexerSink operations

\* OnEnded handing out mDecodedStream's promise.
OnEnded_FromDecodedStream ==
  \E aType \in TrackTypes :
    /\ Enter("OnEnded", <<aType>>)
    /\ \E res \in SinkReplies(Secondary, sinks[Secondary], "OnEnded", <<aType>>) :
         /\ Deliver(Secondary, "OnEnded", <<aType>>, res)
         /\ Return("OnEnded", <<aType>>, res)
    /\ UNCHANGED <<pc, cur>>

OnEnded ==
  \E aType \in TrackTypes :
    /\ Enter("OnEnded", <<aType>>)
    /\ ReturnVideoSink("OnEnded", <<aType>>)
    /\ UNCHANGED <<pc, cur>>

GetEndTime ==
  \E aType \in TrackTypes :
    /\ Enter("GetEndTime", <<aType>>)
    /\ ReturnVideoSink("GetEndTime", <<aType>>)
    /\ UNCHANGED <<pc, cur>>

\* GetPosition answered by mDecodedStream.
GetPosition_FromDecodedStream ==
  /\ Enter("GetPosition", <<>>)
  /\ \E res \in SinkReplies(Secondary, sinks[Secondary], "GetPosition", <<>>) :
       /\ Deliver(Secondary, "GetPosition", <<>>, res)
       /\ Return("GetPosition", <<>>, res)
  /\ UNCHANGED <<pc, cur>>

GetPosition ==
  /\ Enter("GetPosition", <<>>)
  /\ ReturnVideoSink("GetPosition", <<>>)
  /\ UNCHANGED <<pc, cur>>

HasUnplayedFrames ==
  \E aType \in TrackTypes :
    /\ Enter("HasUnplayedFrames", <<aType>>)
    /\ ReturnVideoSink("HasUnplayedFrames", <<aType>>)
    /\ UNCHANGED <<pc, cur>>

UnplayedDuration ==
  \E aType \in TrackTypes :
    /\ Enter("UnplayedDuration", <<aType>>)
    /\ ReturnVideoSink("UnplayedDuration", <<aType>>)
    /\ UNCHANGED <<pc, cur>>

\* SetVolume applied to mDecodedStream as well.
SetVolume_Both ==
  \E aVolume \in Volumes :
    /\ Enter("SetVolume", <<aVolume>>)
    /\ sinks' = [k \in SinkNames |-> SinkEffect(sinks[k], "SetVolume", <<aVolume>>, Void)]
    /\ calls' = [k \in SinkNames |->
                  Append(calls[k], [op |-> "SetVolume", arg |-> <<aVolume>>, res |-> Void])]
    /\ Return("SetVolume", <<aVolume>>, Void)
    /\ UNCHANGED <<pc, cur>>

\* SetVolume refused once mVideoSink has been shut down.
SetVolume_IgnoredAfterShutdown ==
  \E aVolume \in Volumes :
    /\ Enter("SetVolume", <<aVolume>>)
    /\ IF sinks[owned[Primary]].state = "Shutdown"
         THEN /\ UNCHANGED <<sinks, calls>>
              /\ Return("SetVolume", <<aVolume>>, Void)
         ELSE ReturnVideoSink("SetVolume", <<aVolume>>)
    /\ UNCHANGED <<pc, cur>>

SetVolume ==
  \E aVolume \in Volumes :
    /\ Enter("SetVolume", <<aVolume>>)
    /\ ReturnVideoSink("SetVolume", <<aVolume>>)
    /\ UNCHANGED <<pc, cur>>

SetStreamNameVideoSink ==
  \E aStreamName \in StreamNames :
    /\ Enter("SetStreamName", <<aStreamName>>)
    /\ CallVideoSink("SetStreamName", <<aStreamName>>)
    /\ pc' = "secondary"
    /\ UNCHANGED returned

\* SetStreamName calling mVideoSink twice instead of mDecodedStream.
SetStreamNameDecodedStream_VideoSinkTwice ==
  /\ InFlight("SetStreamName")
  /\ Deliver(Primary, "SetStreamName", cur.arg, Void)
  /\ Return("SetStreamName", cur.arg, Void)
  /\ pc' = "idle"
  /\ cur' = NoCall
  /\ UNCHANGED <<issued, owned, other>>

SetStreamNameDecodedStream ==
  /\ InFlight("SetStreamName")
  /\ CallDecodedStream("SetStreamName", cur.arg)
  /\ Return("SetStreamName", cur.arg, Void)
  /\ pc' = "idle"
  /\ cur' = NoCall
  /\ UNCHANGED <<issued, owned, other>>

SetPlaybackRateVideoSink ==
  \E aPlaybackRate \in Rates :
    /\ Enter("SetPlaybackRate", <<aPlaybackRate>>)
    /\ CallVideoSink("SetPlaybackRate", <<aPlaybackRate>>)
    /\ pc' = "secondary"
    /\ UNCHANGED returned

\* SetPlaybackRate returning without the call on mDecodedStream.
SetPlaybackRateDecodedStream_Skipped ==
  /\ InFlight("SetPlaybackRate")
  /\ Return("SetPlaybackRate", cur.arg, Void)
  /\ pc' = "idle"
  /\ cur' = NoCall
  /\ UNCHANGED <<sinks, calls, issued, owned, other>>

SetPlaybackRateDecodedStream ==
  /\ InFlight("SetPlaybackRate")
  /\ CallDecodedStream("SetPlaybackRate", cur.arg)
  /\ Return("SetPlaybackRate", cur.arg, Void)
  /\ pc' = "idle"
  /\ cur' = NoCall
  /\ UNCHANGED <<issued, owned, other>>

SetPreservesPitch ==
  \E aPreservesPitch \in BOOLEAN :
    /\ Enter("SetPreservesPitch", <<BoolStr(aPreservesPitch)>>)
    /\ ReturnVideoSink("SetPreservesPitch", <<BoolStr(aPreservesPitch)>>)
    /\ UNCHANGED <<pc, cur>>

SetPlayingVideoSink ==
  \E aPlaying \in BOOLEAN :
    /\ Enter("SetPlaying", <<BoolStr(aPlaying)>>)
    /\ CallVideoSink("SetPlaying", <<BoolStr(aPlaying)>>)
    /\ pc' = "secondary"
    /\ UNCHANGED returned

\* SetPlaying returning without the call on mDecodedStream.
SetPlayingDecodedStream_Skipped ==
  /\ InFlight("SetPlaying")
  /\ Return("SetPlaying", cur.arg, Void)
  /\ pc' = "idle"
  /\ cur' = NoCall
  /\ UNCHANGED <<sinks, calls, issued, owned, other>>

SetPlayingDecodedStream ==
  /\ InFlight("SetPlaying")
  /\ CallDecodedStream("SetPlaying", cur.arg)
  /\ Return("SetPlaying", cur.arg, Void)
  /\ pc' = "idle"
  /\ cur' = NoCall
  /\ UNCHANGED <<issued, owned, other>>

PlaybackRate ==
  /\ Enter("PlaybackRate", <<>>)
  /\ ReturnVideoSink("PlaybackRate", <<>>)
  /\ UNCHANGED <<pc, cur>>

RedrawVideoSink ==
  \E aInfo \in VideoInfos :
    /\ Enter("Redraw", <<aInfo>>)
    /\ CallVideoSink("Redraw", <<aInfo>>)
    /\ pc' = "secondary"
    /\ UNCHANGED returned

\* Redraw returning to the driver with the redraw of mDecodedStream left for
\* later.
RedrawDecodedStream_Deferred ==
  /\ InFlight("Redraw")
  /\ Return("Redraw", cur.arg, Void)
  /\ pc' = "idle"
  /\ cur' = NoCall
  /\ UNCHANGED <<sinks, calls, issued, owned, other>>

RedrawDecodedStream ==
  /\ InFlight("Redraw")
  /\ CallDecodedStream("Redraw", cur.arg)
  /\ Return("Redraw", cur.arg, Void)
  /\ pc' = "idle"
  /\ cur' = NoCall
  /\ UNCHANGED <<issued, owned, other>>

\* MergeStart reporting success when the two sinks failed differently.
MergeStart_BothFailedOk(videoSinkRes, decodedStreamRes) ==
  IF videoSinkRes = decodedStreamRes THEN videoSinkRes
  ELSE IF videoSinkRes = "NS_OK" THEN decodedStreamRes
  ELSE IF decodedStreamRes = "NS_OK" THEN videoSinkRes
  ELSE "NS_OK"

\* MergeStart taking agreement of the two sinks for success.
MergeStart_AgreementIsOk(videoSinkRes, decodedStreamRes) ==
  IF videoSinkRes = decodedStreamRes THEN "NS_OK"
  ELSE IF videoSinkRes = "NS_OK" THEN decodedStreamRes
  ELSE IF decodedStreamRes = "NS_OK" THEN videoSinkRes
  ELSE "NS_ERROR_FAILURE"

\* MergeStart reporting NS_ERROR_FAILURE whenever the results differ.
MergeStart_GenericOnAnyFailure(videoSinkRes, decodedStreamRes) ==
  IF videoSinkRes = decodedStreamRes THEN videoSinkRes
  ELSE "NS_ERROR_FAILURE"

\* The result merge of MultiplexerSink::Start.
\* The merge succeeding as soon as one sink's Start succeeded.
MergeStart_EitherOk(videoSinkRes, decodedStreamRes) ==
  IF videoSinkRes = "NS_OK" \/ decodedStreamRes = "NS_OK" THEN "NS_OK"
  ELSE IF videoSinkRes = decodedStreamRes THEN videoSinkRes
  ELSE "NS_ERROR_FAILURE"

\* The merge returning mVideoSink's code when the two sinks failed with
\* different codes.
MergeStart_FirstError(videoSinkRes, decodedStreamRes) ==
  IF videoSinkRes = decodedStreamRes THEN videoSinkRes
  ELSE IF videoSinkRes = "NS_OK" THEN decodedStreamRes
  ELSE videoSinkRes

MergeStart(videoSinkRes, decodedStreamRes) ==
  IF videoSinkRes = decodedStreamRes THEN videoSinkRes
  ELSE IF videoSinkRes = "NS_OK" THEN decodedStreamRes
  ELSE IF decodedStreamRes = "NS_OK" THEN videoSinkRes
  ELSE "NS_ERROR_FAILURE"

StartVideoSink ==
  \E aStartTime \in TimeUnits, aInfo \in MediaInfos :
    /\ Enter("Start", <<aStartTime, aInfo>>)
    /\ CallVideoSink("Start", <<aStartTime, aInfo>>)
    /\ pc' = "secondary"
    /\ UNCHANGED returned

\* Start returning early, without starting mDecodedStream, when mVideoSink
\* failed to start.
StartDecodedStream_ShortCircuit ==
  /\ InFlight("Start")
  /\ IF cur.videoSinkRes # "NS_OK"
       THEN /\ Return("Start", cur.arg, cur.videoSinkRes)
            /\ UNCHANGED <<sinks, calls>>
       ELSE \E decodedStreamRes \in Results :
              /\ Deliver(Secondary, "Start", cur.arg, decodedStreamRes)
              /\ Return("Start", cur.arg, MergeStart(cur.videoSinkRes, decodedStreamRes))
  /\ pc' = "idle"
  /\ cur' = NoCall
  /\ UNCHANGED <<issued, owned, other>>

\* Start calling mDecodedStream->Start a second time when the first call failed.
StartDecodedStream_RetriesOnce ==
  /\ InFlight("Start")
  /\ \E first, decodedStreamRes \in Results :
       LET k == owned[Secondary]
           entry(r) == [op |-> "Start", arg |-> cur.arg, res |-> r]
       IN /\ IF first = "NS_OK"
               THEN /\ decodedStreamRes = first
                    /\ calls' = [calls EXCEPT ![k] = Append(@, entry(first))]
               ELSE calls' = [calls EXCEPT ![k] =
                                Append(Append(@, entry(first)), entry(decodedStreamRes))]
          /\ sinks' = [sinks EXCEPT ![k] = SinkEffect(@, "Start", cur.arg, decodedStreamRes)]
          /\ Return("Start", cur.arg, MergeStart(cur.videoSinkRes, decodedStreamRes))
  /\ pc' = "idle"
  /\ cur' = NoCall
  /\ UNCHANGED <<issued, owned, other>>

\* Start that stops mVideoSink again when mDecodedStream's Start failed.
StartDecodedStream_RollsBack ==
  /\ InFlight("Start")
  /\ \E decodedStreamRes \in SinkReplies(owned[Secondary], sinks[owned[Secondary]], "Start", cur.arg) :
       /\ sinks' = [sinks EXCEPT
            ![Secondary] = SinkEffect(@, "Start", cur.arg, decodedStreamRes),
            ![Primary] = IF decodedStreamRes = "NS_OK" THEN @
                         ELSE SinkEffect(@, "Stop", <<>>, Void)]
       /\ calls' = [calls EXCEPT
            ![Secondary] = Append(@, [op |-> "Start", arg |-> cur.arg, res |-> decodedStreamRes]),
            ![Primary] = IF decodedStreamRes = "NS_OK" THEN @
                         ELSE Append(@, [op |-> "Stop", arg |-> <<>>, res |-> Void])]
       /\ Return("Start", cur.arg, MergeStart(cur.videoSinkRes, decodedStreamRes))
  /\ pc' = "idle"
  /\ cur' = NoCall
  /\ UNCHANGED <<issued, owned, other>>

StartDecodedStream ==
  /\ InFlight("Start")
  /\ owned[Secondary] \in SinkNames
  /\ \E decodedStreamRes \in SinkReplies(owned[Secondary], sinks[owned[Secondary]], "Start", cur.arg) :
       /\ Deliver(Secondary, "Start", cur.arg, decodedStreamRes)
       /\ Return("Start", cur.arg, MergeStart(cur.videoSinkRes, decodedStreamRes))
  /\ pc' = "idle"
  /\ cur' = NoCall
  /\ UNCHANGED <<issued, owned, other>>

StopVideoSink ==
  /\ Enter("Stop", <<>>)
  /\ CallVideoSink("Stop", <<>>)
  /\ pc' = "secondary"
  /\ UNCHANGED returned

\* Stop that leaves out a secondary that is not Started.
StopDecodedStream_OnlyIfStarted ==
  /\ InFlight("Stop")
  /\ IF sinks[owned[Secondary]].state = "Started"
       THEN CallDecodedStream("Stop", cur.arg)
       ELSE UNCHANGED <<sinks, calls>>
  /\ Return("Stop", cur.arg, Void)
  /\ pc' = "idle"
  /\ cur' = NoCall
  /\ UNCHANGED <<issued, owned, other>>

StopDecodedStream ==
  /\ InFlight("Stop")
  /\ CallDecodedStream("Stop", cur.arg)
  /\ Return("Stop", cur.arg, Void)
  /\ pc' = "idle"
  /\ cur' = NoCall
  /\ UNCHANGED <<issued, owned, other>>

\* IsStarted answered by mDecodedStream.
IsStarted_FromDecodedStream ==
  /\ Enter("IsStarted", <<>>)
  /\ \E res \in SinkReplies(Secondary, sinks[Secondary], "IsStarted", <<>>) :
       /\ Deliver(Secondary, "IsStarted", <<>>, res)
       /\ Return("IsStarted", <<>>, res)
  /\ UNCHANGED <<pc, cur>>

\* IsStarted reporting whether both sinks are started.
IsStarted_BothStarted ==
  /\ Enter("IsStarted", <<>>)
  /\ sinks' = sinks
  /\ calls' = [k \in SinkNames |->
                Append(calls[k], [op |-> "IsStarted", arg |-> <<>>,
                                  res |-> BoolStr(sinks[k].state = "Started")])]
  /\ Return("IsStarted", <<>>,
            BoolStr(\A k \in SinkNames : sinks[k].state = "Started"))
  /\ UNCHANGED <<pc, cur>>

IsStarted ==
  /\ Enter("IsStarted", <<>>)
  /\ ReturnVideoSink("IsStarted", <<>>)
  /\ UNCHANGED <<pc, cur>>

IsPlaying ==
  /\ Enter("IsPlaying", <<>>)
  /\ ReturnVideoSink("IsPlaying", <<>>)
  /\ UNCHANGED <<pc, cur>>

\* AudioDevice asking mDecodedStream as well, and returning mVideoSink's device.
AudioDevice_AlsoDecodedStream ==
  /\ Enter("AudioDevice", <<>>)
  /\ sinks' = sinks
  /\ calls' = [k \in SinkNames |->
                Append(calls[k], [op |-> "AudioDevice", arg |-> <<>>,
                                  res |-> sinks[k].device])]
  /\ Return("AudioDevice", <<>>, sinks[Primary].device)
  /\ UNCHANGED <<pc, cur>>

AudioDevice ==
  /\ Enter("AudioDevice", <<>>)
  /\ ReturnVideoSink("AudioDevice", <<>>)
  /\ UNCHANGED <<pc, cur>>

ShutdownVideoSink ==
  /\ Enter("Shutdown", <<>>)
  /\ CallVideoSink("Shutdown", <<>>)
  /\ pc' = "secondary"
  /\ UNCHANGED returned

\* Shutdown giving up, and reporting it, when mVideoSink failed to release.
ShutdownDecodedStream_StopsOnFailure ==
  /\ InFlight("Shutdown")
  /\ IF cur.videoSinkRes = "release failed"
       THEN /\ Return("Shutdown", cur.arg, cur.videoSinkRes)
            /\ UNCHANGED <<sinks, calls>>
       ELSE /\ CallDecodedStream("Shutdown", cur.arg)
            /\ Return("Shutdown", cur.arg, Void)
  /\ pc' = "idle"
  /\ cur' = NoCall
  /\ UNCHANGED <<issued, owned, other>>

\* Shutdown dropping the references to the two sinks once they are shut down.
ShutdownDecodedStream_ReleasesSinks ==
  /\ InFlight("Shutdown")
  /\ CallDecodedStream("Shutdown", cur.arg)
  /\ Return("Shutdown", cur.arg, Void)
  /\ pc' = "idle"
  /\ cur' = NoCall
  /\ owned' = [m \in SinkNames |-> "nullptr"]
  /\ UNCHANGED <<issued, other>>

ShutdownDecodedStream ==
  /\ InFlight("Shutdown")
  /\ CallDecodedStream("Shutdown", cur.arg)
  /\ Return("Shutdown", cur.arg, Void)
  /\ pc' = "idle"
  /\ cur' = NoCall
  /\ UNCHANGED <<issued, owned, other>>

SetSecondaryVideoContainerVideoSink ==
  \E aSecondary \in Containers :
    /\ Enter("SetSecondaryVideoContainer", <<aSecondary>>)
    /\ CallVideoSink("SetSecondaryVideoContainer", <<aSecondary>>)
    /\ pc' = "secondary"
    /\ UNCHANGED returned

\* SetSecondaryVideoContainer that clears mDecodedStream's container whatever
\* the container passed.
SetSecondaryVideoContainerDecodedStream_Nullptr ==
  /\ InFlight("SetSecondaryVideoContainer")
  /\ CallDecodedStream("SetSecondaryVideoContainer", <<"nullptr">>)
  /\ Return("SetSecondaryVideoContainer", cur.arg, Void)
  /\ pc' = "idle"
  /\ cur' = NoCall
  /\ UNCHANGED <<issued, owned, other>>

SetSecondaryVideoContainerDecodedStream ==
  /\ InFlight("SetSecondaryVideoContainer")
  /\ CallDecodedStream("SetSecondaryVideoContainer", cur.arg)
  /\ Return("SetSecondaryVideoContainer", cur.arg, Void)
  /\ pc' = "idle"
  /\ cur' = NoCall
  /\ UNCHANGED <<issued, owned, other>>

\* GetDebugInfo collecting the debug info of both sinks.
GetDebugInfo_Both ==
  /\ Enter("GetDebugInfo", <<>>)
  /\ sinks' = sinks
  /\ calls' = [k \in SinkNames |->
                Append(calls[k], [op |-> "GetDebugInfo", arg |-> <<>>, res |-> Void])]
  /\ Return("GetDebugInfo", <<>>, Void)
  /\ UNCHANGED <<pc, cur>>

GetDebugInfo ==
  /\ Enter("GetDebugInfo", <<>>)
  /\ ReturnVideoSink("GetDebugInfo", <<>>)
  /\ UNCHANGED <<pc, cur>>

Next ==
  \/ OnEnded
  \/ GetEndTime
  \/ GetPosition
  \/ HasUnplayedFrames
  \/ UnplayedDuration
  \/ SetVolume
  \/ SetStreamNameVideoSink
  \/ SetStreamNameDecodedStream
  \/ SetPlaybackRateVideoSink
  \/ SetPlaybackRateDecodedStream
  \/ SetPreservesPitch
  \/ SetPlayingVideoSink
  \/ SetPlayingDecodedStream
  \/ PlaybackRate
  \/ RedrawVideoSink
  \/ RedrawDecodedStream
  \/ StartVideoSink
  \/ StartDecodedStream
  \/ StopVideoSink
  \/ StopDecodedStream
  \/ IsStarted
  \/ IsPlaying
  \/ AudioDevice
  \/ ShutdownVideoSink
  \/ ShutdownDecodedStream
  \/ SetSecondaryVideoContainerVideoSink
  \/ SetSecondaryVideoContainerDecodedStream
  \/ GetDebugInfo

Spec == Init /\ [][Next]_vars

----------------------------------------------------------------------------
\* Observations used by the properties

Last(seq) == seq[Len(seq)]

\* The last completed composite call.
Ret == IF returned = <<>> THEN NoRet ELSE Last(returned)

\* The last call sink k received.
LastCall(k) == IF calls[k] = <<>> THEN NoEntry ELSE Last(calls[k])

\* The driver is between composite calls.
Idle == pc = "idle"

\* The arguments of the op calls in a log, in order.
ArgsOf(log, op) ==
  LET idx == {i \in 1..Len(log) : log[i].op = op}
      RECURSIVE Collect(_)
      Collect(n) ==
        IF n = 0 THEN <<>>
        ELSE IF n \in idx THEN Append(Collect(n - 1), log[n].arg)
        ELSE Collect(n - 1)
  IN Collect(Len(log))

\* The calls of a log whose operation is in ops, in order, without the
\* returned values.
CallsOf(log, ops) ==
  LET RECURSIVE Collect(_)
      Collect(n) ==
        IF n = 0 THEN <<>>
        ELSE IF log[n].op \in ops
          THEN Append(Collect(n - 1), [op |-> log[n].op, arg |-> log[n].arg])
        ELSE Collect(n - 1)
  IN Collect(Len(log))

\* Every returned composite call of ops returned what mVideoSink returned for
\* the same call, and mDecodedStream received no call of ops.
AnsweredByPrimary(ops) ==
  /\ \A i \in 1..Len(returned) :
       returned[i].op \in ops =>
         /\ i <= Len(calls[Primary])
         /\ calls[Primary][i].op = returned[i].op
         /\ calls[Primary][i].arg = returned[i].arg
         /\ calls[Primary][i].res = returned[i].val
  /\ \A j \in 1..Len(calls[Secondary]) : calls[Secondary][j].op \notin ops

IsPrefix(a, b) == Len(a) <= Len(b) /\ \A i \in 1..Len(a) : a[i] = b[i]

----------------------------------------------------------------------------
\* Start

\* The composite Start has returned; the last call of each sink is its Start.
StartReturned ==
  /\ Idle
  /\ Ret.op = "Start"
  /\ LastCall(Primary).op = "Start"
  /\ LastCall(Secondary).op = "Start"

\* C1: whenever primary.Start or secondary.Start returned success, the
\* composite Start returns success.
C1_StartOkIfEitherOk ==
  (StartReturned /\ (LastCall(Primary).res = "NS_OK" \/ LastCall(Secondary).res = "NS_OK"))
    => Ret.val = "NS_OK"

\* C2: every composite Start delivers exactly one Start to primary and then
\* exactly one Start to secondary, with the same startTime and info, whatever
\* primary.Start returned.
C2_StartDeliveredToBothOnce ==
  /\ ArgsOf(calls[Primary], "Start") = ArgsOf(issued, "Start")
  /\ IsPrefix(ArgsOf(calls[Secondary], "Start"), ArgsOf(calls[Primary], "Start"))
  /\ Len(ArgsOf(calls[Primary], "Start")) =
       Len(ArgsOf(calls[Secondary], "Start"))
         + (IF pc = "secondary" /\ cur.op = "Start" THEN 1 ELSE 0)

C2_Witness ==
  /\ StartReturned
  /\ LastCall(Primary).res # "NS_OK"
  /\ LastCall(Secondary).arg = LastCall(Primary).arg
  /\ Len(ArgsOf(calls[Secondary], "Start")) = Len(ArgsOf(issued, "Start"))

\* C3: when primary.Start and secondary.Start both failed, with equal or with
\* different error codes, the composite Start returns a failure.
C3_StartFailsIfBothFail ==
  (StartReturned /\ LastCall(Primary).res # "NS_OK" /\ LastCall(Secondary).res # "NS_OK")
    => Ret.val # "NS_OK"

C3_Witness ==
  /\ StartReturned
  /\ LastCall(Primary).res # "NS_OK"
  /\ LastCall(Secondary).res # "NS_OK"
  /\ LastCall(Primary).res # LastCall(Secondary).res
  /\ Ret.val = "NS_ERROR_FAILURE"

\* C4: after a Start in which primary.Start failed (primary is not started)
\* and secondary.Start succeeded, the composite Start has returned success and
\* the next composite IsStarted() returns primary's IsStarted(), false.
C4_PrimaryFailsSecondaryOk ==
  LET n == Len(returned) IN
  ( /\ Idle
    /\ n >= 2
    /\ returned[n].op = "IsStarted"
    /\ returned[n - 1].op = "Start"
    /\ Len(calls[Primary]) = n
    /\ calls[Primary][n - 1].res # "NS_OK"
    /\ LastCall(Secondary).op = "Start"
    /\ LastCall(Secondary).res = "NS_OK"
    /\ sinks[Primary].state # "Started" )
  => /\ returned[n - 1].val = "NS_OK"
     /\ returned[n].val = BoolStr(sinks[Primary].state = "Started")
     /\ returned[n].val = "false"

----------------------------------------------------------------------------
\* Primary-only operations

PositionQueries ==
  {"GetPosition", "GetEndTime", "HasUnplayedFrames", "UnplayedDuration"}

\* C5: GetPosition, GetEndTime, HasUnplayedFrames and UnplayedDuration return
\* exactly the value primary returned for the same call and track; secondary,
\* whatever its state, is not consulted.
C5_PositionQueriesFromPrimary == AnsweredByPrimary(PositionQueries)

C5_Witness ==
  /\ Idle
  /\ Ret.op \in PositionQueries
  /\ Ret.val = LastCall(Primary).res
  /\ sinks[Secondary].state # sinks[Primary].state

\* C6: IsStarted() and IsPlaying() return primary's IsStarted() and
\* IsPlaying(), also when the two sinks' lifecycle states differ.
C6_StateQueriesFromPrimary ==
  /\ AnsweredByPrimary({"IsStarted", "IsPlaying"})
  /\ (Idle /\ Ret.op = "IsStarted") =>
       Ret.val = BoolStr(sinks[Primary].state = "Started")
  /\ (Idle /\ Ret.op = "IsPlaying") => Ret.val = BoolStr(sinks[Primary].playing)

C6_Witness ==
  /\ Idle
  /\ Ret.op = "IsStarted"
  /\ Ret.val = "true"
  /\ sinks[Primary].state = "Started"
  /\ sinks[Secondary].state = "Idle"

\* C7: SetVolume(v) and SetPreservesPitch(b) deliver one such call to primary
\* and no call to secondary; secondary never receives SetVolume or
\* SetPreservesPitch and its volume and pitch settings stay as constructed.
C7_VolumeAndPitchPrimaryOnly ==
  /\ ArgsOf(calls[Primary], "SetVolume") = ArgsOf(issued, "SetVolume")
  /\ ArgsOf(calls[Primary], "SetPreservesPitch") = ArgsOf(issued, "SetPreservesPitch")
  /\ \A j \in 1..Len(calls[Secondary]) : calls[Secondary][j].op \notin PrimaryOnlyMutators
  /\ Len(calls[Secondary]) = Len(CallsOf(returned, BothOps))
  /\ sinks[Secondary].volume = InitSink(Secondary).volume
  /\ sinks[Secondary].pitch = InitSink(Secondary).pitch

C7_Witness ==
  /\ Idle
  /\ Ret.op = "SetVolume"
  /\ LastCall(Primary) = [op |-> "SetVolume", arg |-> <<"0.5">>, res |-> Void]
  /\ sinks[Primary].volume = "0.5"
  /\ sinks[Secondary].volume = "1.0"
  /\ "SetPreservesPitch" \in {issued[i].op : i \in 1..Len(issued)}

----------------------------------------------------------------------------
\* Operations applied to both sinks

\* C8: SetPlaybackRate(r) delivers SetPlaybackRate(r) to primary and to
\* secondary, and a later PlaybackRate() returns the r of the last
\* SetPlaybackRate before it.
C8_PlaybackRateToBoth ==
  /\ ArgsOf(calls[Primary], "SetPlaybackRate") = ArgsOf(issued, "SetPlaybackRate")
  /\ Idle => ArgsOf(calls[Secondary], "SetPlaybackRate") = ArgsOf(issued, "SetPlaybackRate")
  /\ \A i \in 1..Len(returned) :
       returned[i].op = "PlaybackRate" =>
         LET before == ArgsOf(SubSeq(issued, 1, i - 1), "SetPlaybackRate") IN
         before # <<>> => returned[i].val = Last(before)[1]

C8_Witness ==
  /\ Idle
  /\ Ret.op = "PlaybackRate"
  /\ Ret.val = "2.0"
  /\ LastCall(Secondary) = [op |-> "SetPlaybackRate", arg |-> <<"2.0">>, res |-> Void]
  /\ sinks[Secondary].rate = "2.0"

\* C9: Shutdown() delivers exactly one Shutdown to primary and exactly one to
\* secondary, also when primary's Shutdown failed, and returns nothing.
C9_ShutdownReachesBoth ==
  /\ Len(ArgsOf(calls[Primary], "Shutdown")) = Len(ArgsOf(issued, "Shutdown"))
  /\ Idle => Len(ArgsOf(calls[Secondary], "Shutdown")) = Len(ArgsOf(issued, "Shutdown"))
  /\ \A i \in 1..Len(returned) : returned[i].op = "Shutdown" => returned[i].val = Void
  /\ (Idle /\ Ret.op = "Shutdown") =>
       /\ LastCall(Secondary).op = "Shutdown"
       /\ sinks[Secondary].state = "Shutdown"

C9_Witness ==
  /\ Idle
  /\ Ret.op = "Shutdown"
  /\ Ret.val = Void
  /\ LastCall(Primary).op = "Shutdown"
  /\ LastCall(Primary).res = "release failed"
  /\ LastCall(Secondary).op = "Shutdown"
  /\ Len(ArgsOf(calls[Secondary], "Shutdown")) = 1

\* C10: within a composite call of an operation applied to both sinks, the
\* call on primary comes before the call on secondary, and the call on
\* secondary is made whatever primary's state or outcome.
C10_PrimaryBeforeSecondary ==
  LET p == CallsOf(calls[Primary], BothOps)
      s == CallsOf(calls[Secondary], BothOps)
  IN /\ IsPrefix(s, p)
     /\ Len(p) = Len(s) + (IF pc = "secondary" THEN 1 ELSE 0)
     /\ pc = "secondary" =>
          /\ cur.op \in BothOps
          /\ Last(p) = [op |-> cur.op, arg |-> cur.arg]
     /\ p = CallsOf(issued, BothOps)

C10_Witness ==
  /\ Idle
  /\ Ret.op \in BothOps \ {"Start"}
  /\ Len(CallsOf(calls[Secondary], BothOps)) = 2
  /\ CallsOf(calls[Secondary], BothOps) = CallsOf(calls[Primary], BothOps)
  /\ sinks[Primary].state = "Idle"
  /\ sinks[Secondary].state = "Started"


\* C11: between composite calls the last playback rate delivered to primary
\* equals the last one delivered to secondary, and likewise the last playing
\* flag, once SetPlaybackRate, respectively SetPlaying, has been called; no
\* composite operation changes rate or playing state on one sink only.
C11_RateAndPlayingInStep ==
  Idle =>
    /\ ArgsOf(calls[Secondary], "SetPlaybackRate") = ArgsOf(calls[Primary], "SetPlaybackRate")
    /\ ArgsOf(calls[Secondary], "SetPlaying") = ArgsOf(calls[Primary], "SetPlaying")
    /\ ArgsOf(issued, "SetPlaybackRate") # <<>> =>
         /\ sinks[Primary].rate = Last(ArgsOf(issued, "SetPlaybackRate"))[1]
         /\ sinks[Secondary].rate = sinks[Primary].rate
    /\ ArgsOf(issued, "SetPlaying") # <<>> =>
         /\ BoolStr(sinks[Primary].playing) = Last(ArgsOf(issued, "SetPlaying"))[1]
         /\ sinks[Secondary].playing = sinks[Primary].playing

C11_Witness ==
  /\ Idle
  /\ ArgsOf(calls[Secondary], "SetPlaybackRate") = << <<"2.0">> >>
  /\ ArgsOf(calls[Secondary], "SetPlaying") = << <<"true">> >>
  /\ sinks[Primary].rate = "2.0"
  /\ sinks[Secondary].rate = "2.0"
  /\ sinks[Primary].playing
  /\ sinks[Secondary].playing

\* C12: SetStreamName(x) delivers SetStreamName with the unmodified x to both
\* primary and secondary, so both observe x as their stream name.
C12_StreamNameToBoth ==
  /\ ArgsOf(calls[Primary], "SetStreamName") = ArgsOf(issued, "SetStreamName")
  /\ Idle => ArgsOf(calls[Secondary], "SetStreamName") = ArgsOf(issued, "SetStreamName")
  /\ (Idle /\ Ret.op = "SetStreamName") =>
       /\ sinks[Primary].name = Ret.arg[1]
       /\ sinks[Secondary].name = Ret.arg[1]

C12_Witness ==
  /\ Idle
  /\ Ret.op = "SetStreamName"
  /\ Ret.arg = <<"x">>
  /\ sinks[Primary].name = "x"
  /\ sinks[Secondary].name = "x"
  /\ LastCall(Secondary) = [op |-> "SetStreamName", arg |-> <<"x">>, res |-> Void]


\* The returned composite Start calls, and for each what the two sinks and the
\* composite returned.  The i-th composite call is the i-th call of primary;
\* the n-th both-sink call is the n-th call of secondary.
ReturnedStarts == {i \in 1..Len(returned) : returned[i].op = "Start"}
SecondaryIndex(i) == Len(CallsOf(SubSeq(returned, 1, i), BothOps))
StartOutcome(i) ==
  [videoSinkRes |-> calls[Primary][i].res,
   decodedStreamRes |-> calls[Secondary][SecondaryIndex(i)].res,
   val |-> returned[i].val]
SamePattern(a, b) ==
  /\ (a.videoSinkRes = "NS_OK") = (b.videoSinkRes = "NS_OK")
  /\ (a.decodedStreamRes = "NS_OK") = (b.decodedStreamRes = "NS_OK")

\* C13 as stated: two Starts in which the sinks succeed and fail in the same
\* pattern return the same result, whatever the error codes.
C13_ResultIgnoresErrorCodes ==
  \A i, j \in ReturnedStarts :
    SamePattern(StartOutcome(i), StartOutcome(j)) =>
      StartOutcome(i).val = StartOutcome(j).val

\* C13, amended: two Starts in which the sinks succeed and fail in the same
\* pattern both return success or both return a failure; the error code
\* returned may differ with the sinks' error codes.
C13_SuccessIgnoresErrorCodes ==
  \A i, j \in ReturnedStarts :
    SamePattern(StartOutcome(i), StartOutcome(j)) =>
      (StartOutcome(i).val = "NS_OK") = (StartOutcome(j).val = "NS_OK")

C13_Witness ==
  /\ Idle
  /\ ReturnedStarts = {1, 2}
  /\ SamePattern(StartOutcome(1), StartOutcome(2))
  /\ StartOutcome(1).videoSinkRes # "NS_OK"
  /\ StartOutcome(1).decodedStreamRes # "NS_OK"
  /\ StartOutcome(1).videoSinkRes = StartOutcome(1).decodedStreamRes
  /\ StartOutcome(2).videoSinkRes # StartOutcome(2).decodedStreamRes
  /\ StartOutcome(1).val # StartOutcome(2).val
  /\ StartOutcome(1).val # "NS_OK"
  /\ StartOutcome(2).val # "NS_OK"

\* C14: a result of the composite Start that is not the result of either
\* sink is NS_ERROR_FAILURE, and is returned only when both sinks failed.
C14_GenericFailureOnlyIfBothFail ==
  \A i \in ReturnedStarts :
    LET o == StartOutcome(i) IN
    o.val \notin {o.videoSinkRes, o.decodedStreamRes} =>
      /\ o.val = "NS_ERROR_FAILURE"
      /\ o.videoSinkRes # "NS_OK"
      /\ o.decodedStreamRes # "NS_OK"

C14_Witness ==
  /\ Idle
  /\ 1 \in ReturnedStarts
  /\ StartOutcome(1).videoSinkRes = "NS_ERROR_OUT_OF_MEMORY"
  /\ StartOutcome(1).decodedStreamRes = "NS_ERROR_NOT_INITIALIZED"
  /\ StartOutcome(1).val = "NS_ERROR_FAILURE"


----------------------------------------------------------------------------
\* Forwarding discipline

\* The calls of a log, in order, without the returned values.
Stripped(log) == [i \in 1..Len(log) |-> [op |-> log[i].op, arg |-> log[i].arg]]

\* The operations that change a sink.
Mutators == BothOps \cup PrimaryOnlyMutators

\* C15: OnEnded(track) returns the very promise primary.OnEnded(track)
\* returned; the composite hands out no promise of its own, and repeated
\* OnEnded(track) calls return the same promise whenever primary's do.
C15_OnEndedIsPrimarysPromise ==
  /\ AnsweredByPrimary({"OnEnded"})
  /\ \A i \in 1..Len(returned) :
       returned[i].op = "OnEnded" =>
         returned[i].val \in
           {calls[Primary][n].res :
              n \in {m \in 1..Len(calls[Primary]) : calls[Primary][m].op = "OnEnded"}}
  /\ \A i, j \in 1..Len(returned) :
       ( /\ returned[i].op = "OnEnded"
         /\ returned[j].op = "OnEnded"
         /\ calls[Primary][i].res = calls[Primary][j].res )
       => returned[i].val = returned[j].val

C15_Witness ==
  /\ Idle
  /\ Len(returned) = 2
  /\ returned[1] = [op |-> "OnEnded", arg |-> <<"Audio">>, val |-> EndedPromiseOf(Primary, "Audio")]
  /\ returned[2] = returned[1]
  /\ calls[Primary][1].res = calls[Primary][2].res
  /\ calls[Secondary] = <<>>

\* C16: a primary-only query delivers the same-named query to primary and
\* nothing to secondary, and the mutator calls each sink receives are those of
\* the composite's mutator calls alone, whatever queries come in between.
C16_QueriesReachPrimaryOnly ==
  /\ AnsweredByPrimary(PrimaryOnlyQueries)
  /\ CallsOf(calls[Primary], PrimaryOnlyQueries) = CallsOf(issued, PrimaryOnlyQueries)
  /\ CallsOf(calls[Primary], Mutators) = CallsOf(issued, Mutators)
  /\ IsPrefix(Stripped(calls[Secondary]), CallsOf(issued, BothOps))
  /\ Idle => Stripped(calls[Secondary]) = CallsOf(issued, BothOps)

C16_Witness ==
  /\ Idle
  /\ Len(issued) = 2
  /\ issued[1].op \in PrimaryOnlyQueries
  /\ issued[2].op \in BothOps
  /\ Stripped(calls[Primary]) = issued
  /\ Stripped(calls[Secondary]) = <<issued[2]>>

\* C17: every composite call delivers one call of the same operation to
\* primary and at most one to secondary, also when a sink's Start failed;
\* a sink is called again only when the driver calls the composite again.
C17_NoRetry ==
  /\ Stripped(calls[Primary]) = issued
  /\ Len(calls[Secondary]) <= Len(issued)
  /\ IsPrefix(Stripped(calls[Secondary]), CallsOf(issued, BothOps))
  /\ \A i \in ReturnedStarts :
       /\ calls[Primary][i].op = "Start"
       /\ calls[Secondary][SecondaryIndex(i)].op = "Start"
       /\ SecondaryIndex(i) <= i

C17_Witness ==
  /\ Idle
  /\ ReturnedStarts = {1, 2}
  /\ StartOutcome(1).videoSinkRes # "NS_OK"
  /\ StartOutcome(1).decodedStreamRes # "NS_OK"
  /\ Len(calls[Primary]) = 2
  /\ Len(calls[Secondary]) = 2


----------------------------------------------------------------------------
\* Ownership, divergence, diagnostics

\* C18: after any sequence of operations, Stop and Shutdown included, the
\* composite's two members refer to the sinks it was constructed with, in the
\* same roles.
C18_OwnedPairFixed == owned = [m \in SinkNames |-> m]

C18_Witness ==
  /\ Idle
  /\ Len(returned) = 2
  /\ returned[1].op = "Stop"
  /\ returned[2].op = "Shutdown"
  /\ sinks[Primary].state = "Shutdown"
  /\ sinks[Secondary].state = "Shutdown"
  /\ owned[Primary] = Primary
  /\ owned[Secondary] = Secondary

\* C19: after a composite Start in which primary.Start succeeded and
\* secondary.Start failed, IsStarted() returns true while secondary, which
\* never started, is still Idle.
C19_StartedWithIdleSecondary ==
  LET n == Len(returned) IN
  ( /\ Idle
    /\ n >= 2
    /\ returned[n].op = "IsStarted"
    /\ n - 1 \in ReturnedStarts
    /\ StartOutcome(n - 1).videoSinkRes = "NS_OK"
    /\ StartOutcome(n - 1).decodedStreamRes # "NS_OK"
    /\ sinks[Primary].state # "Shutdown" )
  => /\ returned[n].val = "true"
     /\ (\A j \in 1..Len(calls[Secondary]) :
           calls[Secondary][j].op = "Start" => calls[Secondary][j].res # "NS_OK")
        => sinks[Secondary].state = "Idle"

C19_Witness ==
  /\ Idle
  /\ Len(returned) = 2
  /\ returned[1].op = "Start"
  /\ returned[2] = [op |-> "IsStarted", arg |-> <<>>, val |-> "true"]
  /\ StartOutcome(1).videoSinkRes = "NS_OK"
  /\ StartOutcome(1).decodedStreamRes # "NS_OK"
  /\ sinks[Secondary].state = "Idle"
  /\ sinks[Secondary].startTime = None

\* C20: GetDebugInfo delivers one GetDebugInfo to primary and no call to
\* secondary, and leaves the state of both sinks as it was.
C20_GetDebugInfoPrimaryOnly ==
  [][ ( /\ Len(issued') = Len(issued) + 1
        /\ Last(issued').op = "GetDebugInfo" )
      => /\ calls'[Primary] =
              Append(calls[Primary], [op |-> "GetDebugInfo", arg |-> <<>>, res |-> Void])
         /\ calls'[Secondary] = calls[Secondary]
         /\ sinks' = sinks
         /\ pc' = "idle" ]_vars

C20_Witness ==
  /\ Idle
  /\ Len(returned) = 2
  /\ returned[1].op = "Start"
  /\ returned[2].op = "GetDebugInfo"
  /\ LastCall(Primary).op = "GetDebugInfo"
  /\ Len(calls[Secondary]) = 1
  /\ sinks[Primary].state = "Started"
  /\ sinks[Secondary].state = "Started"


----------------------------------------------------------------------------
\* A driver that calls Start only when IsStarted() is false

OperationsButStart ==
  \/ OnEnded
  \/ GetEndTime
  \/ GetPosition
  \/ HasUnplayedFrames
  \/ UnplayedDuration
  \/ SetVolume
  \/ SetStreamNameVideoSink
  \/ SetStreamNameDecodedStream
  \/ SetPlaybackRateVideoSink
  \/ SetPlaybackRateDecodedStream
  \/ SetPreservesPitch
  \/ SetPlayingVideoSink
  \/ SetPlayingDecodedStream
  \/ PlaybackRate
  \/ RedrawVideoSink
  \/ RedrawDecodedStream
  \/ StartDecodedStream
  \/ StopVideoSink
  \/ StopDecodedStream
  \/ IsStarted
  \/ IsPlaying
  \/ AudioDevice
  \/ ShutdownVideoSink
  \/ ShutdownDecodedStream
  \/ SetSecondaryVideoContainerVideoSink
  \/ SetSecondaryVideoContainerDecodedStream
  \/ GetDebugInfo

\* The driver calls Start having seen IsStarted() return false.
StartWhenNotStarted ==
  /\ owned[Primary] \in SinkNames
  /\ sinks[owned[Primary]].state # "Started"
  /\ StartVideoSink

NextStartWhenNotStarted == OperationsButStart \/ StartWhenNotStarted

SpecStartWhenNotStarted == Init /\ [][NextStartWhenNotStarted]_vars

\* C21: with a driver that calls Start only when IsStarted() is false, no
\* sink receives Start while that sink is Started.
C21_NoStartWhileStarted ==
  [][ \A k \in SinkNames :
        ( /\ Len(calls'[k]) = Len(calls[k]) + 1
          /\ Last(calls'[k]).op = "Start" )
        => sinks[k].state # "Started" ]_vars


----------------------------------------------------------------------------
\* Lifecycle

\* What IsStarted() returns when called in the current state.
IsStartedValue ==
  CHOOSE v \in SinkReplies(owned[Primary], sinks[owned[Primary]], "IsStarted", <<>>) : TRUE

\* Primary has received no Shutdown.
PrimaryNotShutdown == \A i \in 1..Len(calls[Primary]) : calls[Primary][i].op # "Shutdown"

\* C22: IsStarted() is false before the first Start, true after a Start in
\* which primary succeeded, and false after Stop(); Stop() is delivered to both
\* owned sinks, whether or not each of them is Started.
C22_LifecycleThroughIsStarted ==
  Idle =>
    /\ issued = <<>> => IsStartedValue = "false"
    /\ ( /\ Ret.op = "Start"
         /\ PrimaryNotShutdown ) =>
           (LastCall(Primary).res = "NS_OK" => IsStartedValue = "true")
    /\ Ret.op = "Stop" =>
         /\ IsStartedValue = "false"
         /\ LastCall(Primary).op = "Stop"
         /\ LastCall(Secondary).op = "Stop"
    /\ ( /\ Ret.op = "IsStarted"
         /\ PrimaryNotShutdown ) =>
           /\ Len(returned) = 1 => Ret.val = "false"
           /\ ( /\ Len(returned) > 1
                /\ returned[Len(returned) - 1].op = "Start" ) =>
                  (calls[Primary][Len(calls[Primary]) - 1].res = "NS_OK" => Ret.val = "true")
           /\ ( /\ Len(returned) > 1
                /\ returned[Len(returned) - 1].op = "Stop" ) =>
                  Ret.val = "false"

\* Start in which primary succeeded and secondary failed, then Stop.
C22_Witness ==
  /\ Idle
  /\ Len(issued) = 2
  /\ issued[1].op = "Start"
  /\ issued[2].op = "Stop"
  /\ calls[Primary][1].res = "NS_OK"
  /\ calls[Secondary][1].res # "NS_OK"
  /\ Len(calls[Secondary]) = 2
  /\ calls[Secondary][2].op = "Stop"
  /\ IsStartedValue = "false"


----------------------------------------------------------------------------
\* Shutdown

\* The positions of a log that come after a Shutdown in it.
AfterShutdown(log) ==
  {i \in 1..Len(log) : \E j \in 1..(i - 1) : log[j].op = "Shutdown"}

\* C23 as stated: once Shutdown has been called no later call is delivered to
\* either owned sink, a second Shutdown included: in each sink's log nothing
\* follows a Shutdown.
C23_NothingDeliveredAfterShutdown ==
  \A k \in SinkNames : AfterShutdown(calls[k]) = {}

\* C23, amended: the composite refuses nothing after Shutdown.  A composite
\* call made after Shutdown is delivered like any other, to primary and, for
\* an operation applied to both, to secondary, a further Shutdown included;
\* a sink receives a call after its Shutdown only if the driver made a
\* composite call after the composite's Shutdown.
C23_CallsAfterShutdownForwarded ==
  /\ \A i \in AfterShutdown(issued) :
       /\ i <= Len(calls[Primary])
       /\ Stripped(calls[Primary])[i] = issued[i]
  /\ Idle =>
       \A i \in AfterShutdown(issued) :
         issued[i].op \in BothOps =>
           \E j \in AfterShutdown(calls[Secondary]) :
             Stripped(calls[Secondary])[j] = issued[i]
  /\ \A k \in SinkNames :
       AfterShutdown(calls[k]) # {} => AfterShutdown(issued) # {}

\* Shutdown called twice: each sink has received Shutdown twice.
C23_Witness ==
  /\ Idle
  /\ Len(issued) = 2
  /\ issued[1].op = "Shutdown"
  /\ issued[2].op = "Shutdown"
  /\ \A k \in SinkNames :
       /\ Len(calls[k]) = 2
       /\ calls[k][2].op = "Shutdown"


----------------------------------------------------------------------------
\* Mirroring under a serialized driver

\* C24: with one driver whose calls do not overlap, after every completed
\* composite call secondary has received the same calls of the operations
\* applied to both sinks as primary, with the same arguments in the same
\* order; while a call is in flight primary is ahead by that one call.
C24_SecondaryMirrorsPrimary ==
  LET p == CallsOf(calls[Primary], BothOps)
      s == CallsOf(calls[Secondary], BothOps)
  IN /\ Idle => s = p
     /\ ~Idle => p = Append(s, [op |-> cur.op, arg |-> cur.arg])

C24_Witness ==
  /\ Idle
  /\ Len(issued) = 2
  /\ issued[1].op = "SetSecondaryVideoContainer"
  /\ issued[1].arg = <<"container">>
  /\ issued[2].op = "SetPlaybackRate"
  /\ Stripped(calls[Secondary]) = issued
  /\ Stripped(calls[Primary]) = issued


----------------------------------------------------------------------------
\* Two callers that are not serialized

\* A second thread calls SetPlaybackRate or SetPlaying on the same composite.
\* Its calls run the same two statements; its position is kept in other.
SecondCallerEnter(op, arg) ==
  /\ other.pc = "idle"
  /\ Len(issued) < MaxCalls
  /\ issued' = Append(issued, [op |-> op, arg |-> arg])
  /\ UNCHANGED <<owned, pc, cur>>

SecondCallerInFlight(op) == other.pc = "secondary" /\ other.cur.op = op

\* The second caller's SetPlaybackRate taking a lock the first caller holds
\* for the length of its call.
SecondCallerSetPlaybackRateVideoSink_Locked ==
  \E aPlaybackRate \in Rates :
    /\ pc = "idle"
    /\ SecondCallerEnter("SetPlaybackRate", <<aPlaybackRate>>)
    /\ Deliver(Primary, "SetPlaybackRate", <<aPlaybackRate>>, Void)
    /\ other' = [pc |-> "secondary",
                 cur |-> [op |-> "SetPlaybackRate", arg |-> <<aPlaybackRate>>,
                          videoSinkRes |-> Void]]
    /\ UNCHANGED returned

SecondCallerSetPlaybackRateVideoSink ==
  \E aPlaybackRate \in Rates :
    /\ SecondCallerEnter("SetPlaybackRate", <<aPlaybackRate>>)
    /\ Deliver(Primary, "SetPlaybackRate", <<aPlaybackRate>>, Void)
    /\ other' = [pc |-> "secondary",
                 cur |-> [op |-> "SetPlaybackRate", arg |-> <<aPlaybackRate>>,
                          videoSinkRes |-> Void]]
    /\ UNCHANGED returned

SecondCallerSetPlaybackRateDecodedStream ==
  /\ SecondCallerInFlight("SetPlaybackRate")
  /\ Deliver(Secondary, "SetPlaybackRate", other.cur.arg, Void)
  /\ Return("SetPlaybackRate", other.cur.arg, Void)
  /\ other' = [pc |-> "idle", cur |-> NoCall]
  /\ UNCHANGED <<issued, owned, pc, cur>>

SecondCallerSetPlayingVideoSink ==
  \E aPlaying \in {"true", "false"} :
    /\ SecondCallerEnter("SetPlaying", <<aPlaying>>)
    /\ Deliver(Primary, "SetPlaying", <<aPlaying>>, Void)
    /\ other' = [pc |-> "secondary",
                 cur |-> [op |-> "SetPlaying", arg |-> <<aPlaying>>,
                          videoSinkRes |-> Void]]
    /\ UNCHANGED returned

SecondCallerSetPlayingDecodedStream ==
  /\ SecondCallerInFlight("SetPlaying")
  /\ Deliver(Secondary, "SetPlaying", other.cur.arg, Void)
  /\ Return("SetPlaying", other.cur.arg, Void)
  /\ other' = [pc |-> "idle", cur |-> NoCall]
  /\ UNCHANGED <<issued, owned, pc, cur>>

NextConcurrent ==
  \/ SetPlaybackRateVideoSink
  \/ SetPlaybackRateDecodedStream
  \/ SetPlayingVideoSink
  \/ SetPlayingDecodedStream
  \/ SecondCallerSetPlaybackRateVideoSink
  \/ SecondCallerSetPlaybackRateDecodedStream
  \/ SecondCallerSetPlayingVideoSink
  \/ SecondCallerSetPlayingDecodedStream

SpecConcurrent == Init /\ [][NextConcurrent]_vars

\* The number of times e occurs in seq.
Count(seq, e) == Cardinality({i \in 1..Len(seq) : seq[i] = e})

\* The argument of the last op call of a log, or init if it has none.
LastArg(log, op, init) ==
  LET a == ArgsOf(log, op) IN IF a = <<>> THEN init ELSE Last(a)[1]

\* Neither caller is inside a call.
BothCallersIdle == pc = "idle" /\ other.pc = "idle"

\* C25: nothing in the composite keeps two callers apart.  While one caller
\* is between the two statements of SetPlaybackRate or SetPlaying the other
\* may begin its own call; when both have returned each sink has received
\* every call once and holds the value of the last call it received, so the
\* two sinks hold different values exactly when they received the calls in
\* different orders.
C25_NoMutualExclusion ==
  /\ ( /\ pc = "secondary"
       /\ other.pc = "idle"
       /\ Len(issued) < MaxCalls ) => ENABLED SecondCallerSetPlaybackRateVideoSink
  /\ BothCallersIdle =>
       /\ \A k \in SinkNames :
            /\ Len(calls[k]) = Len(issued)
            /\ \A i \in 1..Len(issued) :
                 Count(Stripped(calls[k]), issued[i]) = Count(issued, issued[i])
            /\ sinks[k].rate = LastArg(calls[k], "SetPlaybackRate", InitSink(k).rate)
            /\ BoolStr(sinks[k].playing)
                 = LastArg(calls[k], "SetPlaying", BoolStr(InitSink(k).playing))
       /\ ( \/ sinks[Primary].rate # sinks[Secondary].rate
            \/ sinks[Primary].playing # sinks[Secondary].playing )
          => Stripped(calls[Primary]) # Stripped(calls[Secondary])

\* Both callers have returned from SetPlaybackRate and the sinks hold
\* different rates.
C25_Witness ==
  /\ BothCallersIdle
  /\ Len(returned) = 2
  /\ issued[1].op = "SetPlaybackRate"
  /\ issued[2].op = "SetPlaybackRate"
  /\ sinks[Primary].rate # sinks[Secondary].rate


----------------------------------------------------------------------------
\* Independence of primary from secondary

\* The state of sink k after the calls of log, from its initial state.
Replay(k, log) ==
  LET RECURSIVE After(_)
      After(n) ==
        IF n = 0 THEN InitSink(k)
        ELSE SinkEffect(After(n - 1), log[n].op, log[n].arg, log[n].res)
  IN After(Len(log))

\* C26: the calls primary receives, with their arguments, are the composite
\* calls the driver made, one for one and in order, whatever secondary
\* returned or whatever state it is in; primary's state is the result of
\* those calls alone.
C26_PrimaryIndependentOfSecondary ==
  /\ Len(calls[Primary]) = Len(issued)
  /\ \A i \in 1..Len(issued) :
       /\ calls[Primary][i].op = issued[i].op
       /\ calls[Primary][i].arg = issued[i].arg
  /\ sinks[Primary] = Replay(Primary, calls[Primary])

\* Secondary's Start failed where primary's succeeded, and a further call
\* has been made.
C26_Witness ==
  /\ Idle
  /\ Len(issued) = 2
  /\ issued[1].op = "Start"
  /\ calls[Primary][1].res = "NS_OK"
  /\ calls[Secondary][1].res # "NS_OK"
  /\ sinks[Primary].state = "Started"
  /\ sinks[Secondary].state = "Idle"


----------------------------------------------------------------------------
\* The merged result of Start

\* C27: the composite Start returns NS_OK exactly when primary's Start and
\* secondary's Start both returned NS_OK; after a composite Start that
\* returned NS_OK both sinks have been started successfully.
C27_StartOkIffBothOk ==
  /\ \A i \in ReturnedStarts :
       StartOutcome(i).val = "NS_OK" <=>
         /\ StartOutcome(i).videoSinkRes = "NS_OK"
         /\ StartOutcome(i).decodedStreamRes = "NS_OK"
  /\ ( /\ StartReturned
       /\ Ret.val = "NS_OK" ) =>
         /\ LastCall(Primary).res = "NS_OK"
         /\ LastCall(Secondary).res = "NS_OK"

\* Both kinds of Start have returned: one with both sinks succeeding, one
\* with only secondary failing.
C27_Witness ==
  /\ Idle
  /\ ReturnedStarts = {1, 2}
  /\ StartOutcome(1).val = "NS_OK"
  /\ StartOutcome(2).videoSinkRes = "NS_OK"
  /\ StartOutcome(2).decodedStreamRes # "NS_OK"
  /\ StartOutcome(2).val # "NS_OK"

\* C28: when exactly one sink's Start failed, with code E, the composite Start
\* returns E; when both failed with the same code E it returns E; when both
\* failed with different codes, and only then, it returns NS_ERROR_FAILURE
\* without either sink having returned it.
C28_ErrorCodePassedThrough ==
  \A i \in ReturnedStarts :
    LET o == StartOutcome(i) IN
    /\ (o.videoSinkRes # "NS_OK" /\ o.decodedStreamRes = "NS_OK") => o.val = o.videoSinkRes
    /\ (o.videoSinkRes = "NS_OK" /\ o.decodedStreamRes # "NS_OK") => o.val = o.decodedStreamRes
    /\ (o.videoSinkRes # "NS_OK" /\ o.decodedStreamRes = o.videoSinkRes) => o.val = o.videoSinkRes
    /\ ( /\ o.videoSinkRes # "NS_OK"
         /\ o.decodedStreamRes # "NS_OK"
         /\ o.videoSinkRes # o.decodedStreamRes ) => o.val = "NS_ERROR_FAILURE"
    /\ (o.val \notin {o.videoSinkRes, o.decodedStreamRes}) =>
         /\ o.val = "NS_ERROR_FAILURE"
         /\ o.videoSinkRes # "NS_OK"
         /\ o.decodedStreamRes # "NS_OK"
         /\ o.videoSinkRes # o.decodedStreamRes

\* One Start in which only primary failed, with a code of its own, and one
\* in which the sinks failed with two different codes, neither of them
\* NS_ERROR_FAILURE.
C28_Witness ==
  /\ Idle
  /\ ReturnedStarts = {1, 2}
  /\ StartOutcome(1).videoSinkRes = "NS_ERROR_OUT_OF_MEMORY"
  /\ StartOutcome(1).decodedStreamRes = "NS_OK"
  /\ StartOutcome(1).val = "NS_ERROR_OUT_OF_MEMORY"
  /\ StartOutcome(2).videoSinkRes = "NS_ERROR_NOT_INITIALIZED"
  /\ StartOutcome(2).decodedStreamRes = "NS_ERROR_OUT_OF_MEMORY"
  /\ StartOutcome(2).val = "NS_ERROR_FAILURE"


----------------------------------------------------------------------------
\* Synchrony

\* The second statement of the operations applied to both sinks: the call on
\* mDecodedStream and the return to the driver.
SecondStatement ==
  \/ SetStreamNameDecodedStream
  \/ SetPlaybackRateDecodedStream
  \/ SetPlayingDecodedStream
  \/ RedrawDecodedStream
  \/ StartDecodedStream
  \/ StopDecodedStream
  \/ ShutdownDecodedStream
  \/ SetSecondaryVideoContainerDecodedStream

\* Every call on a sink returns: a composite call that has called mVideoSink
\* goes on to call mDecodedStream and return.
SpecSinkCallsReturn == Init /\ [][Next]_vars /\ WF_vars(SecondStatement)

\* The returned composite calls of operations applied to both sinks.
ReturnedBoth == CallsOf(returned, BothOps)

\* C29: when a composite call of an operation applied to both sinks has
\* returned, secondary has received and completed that call and its state
\* shows the change, as primary's does; and a composite call that has begun
\* returns, given that each call on a sink returns.
C29_Synchronous ==
  /\ [] ( /\ IsPrefix(ReturnedBoth, Stripped(calls[Secondary]))
          /\ Len(Stripped(calls[Secondary])) = Len(ReturnedBoth)
          /\ \A k \in SinkNames : sinks[k] = Replay(k, calls[k])
          /\ Idle => Len(returned) = Len(issued) )
  /\ \A n \in 1..(MaxCalls + 1) : (Len(issued) = n) ~> (Len(returned) >= n)

\* Redraw has returned and both sinks have redrawn.
C29_Witness ==
  /\ Idle
  /\ Ret.op = "Redraw"
  /\ LastCall(Primary).op = "Redraw"
  /\ LastCall(Secondary).op = "Redraw"
  /\ Len(returned) = 2
  /\ returned[1].op = "SetPlaybackRate"
  /\ sinks[Secondary].rate = returned[1].arg[1]
  /\ sinks[Secondary].rate # InitSink(Secondary).rate


----------------------------------------------------------------------------
\* Construction with any arguments

\* MultiplexerSink::MultiplexerSink stores aVideoSink and aDecodedStream as
\* they are passed; either may be a null pointer.
InitAnyArguments ==
  /\ sinks = [k \in SinkNames |-> InitSink(k)]
  /\ calls = [k \in SinkNames |-> <<>>]
  /\ pc = "idle"
  /\ cur = NoCall
  /\ issued = <<>>
  /\ returned = <<>>
  /\ owned \in [SinkNames -> SinkNames \cup {"nullptr"}]
  /\ \A m \in SinkNames : owned[m] \in {m, "nullptr"}
  /\ other = [pc |-> "idle", cur |-> NoCall]

\* What calling through a null RefPtr does: the assertion in a debug build,
\* the fault of the virtual call through address 0 otherwise.
NullDereferenceOutcomes == {"MOZ_ASSERT", "SIGSEGV"}

\* A composite operation reaches a statement that calls through a member that
\* is null: every operation's first statement when mVideoSink is null, the
\* second statement of an operation applied to both when mDecodedStream is.
NullDereference ==
  /\ \/ /\ pc = "idle"
        /\ Len(issued) < MaxCalls
        /\ owned[Primary] = "nullptr"
     \/ /\ pc = "secondary"
        /\ owned[Secondary] = "nullptr"
  /\ pc' \in NullDereferenceOutcomes
  /\ UNCHANGED <<sinks, calls, cur, issued, returned, owned, other>>

NextAnyArguments == Next \/ NullDereference

SpecAnyArguments == InitAnyArguments /\ [][NextAnyArguments]_vars

\* C30: in every reachable state both owned sink references are non-null and
\* no composite operation has dereferenced a null sink, whatever arguments
\* the constructor was given.
C30_OwnedSinksNonNull ==
  /\ \A m \in SinkNames : owned[m] \in SinkNames
  /\ pc \notin NullDereferenceOutcomes

====
